---- MODULE Spec2Model ----
(***************************************************************************)
(* A model of vmdk_analyzer.py: VmdkParser.parse() walking the two-level   *)
(* grain directory / grain table structure of a sparse VMDK image and      *)
(* recording, per physical sector of the file, which entry claims it.      *)
(*                                                                         *)
(* One behaviour is one call of parse() on one image.  The image (header   *)
(* fields, file size and the non-zero 32-bit words of the file) is chosen  *)
(* in Init and never changes: the program only reads it.  Every statement  *)
(* of the parse that changes the parser's state is one step; each call of  *)
(* reserve_block is a step of its own.  A raised exception ends the parse  *)
(* with the exception's type in exc and pc at the statement that raised.   *)
(***************************************************************************)
EXTENDS Integers, Sequences, FiniteSets, TLC

VARIABLES img, gd_order, gt_desc,
          pc, exc, pos, lines, errors, blocks,
          version, capacity, granularity, gd_offset, gd_size, gt_size,
          used_sectors, gd, gd_iter, gt_iter, ri, gtes, gts, used_blocks

vars == <<img, gd_order, gt_desc, pc, exc, pos, lines, errors, blocks,
          version, capacity, granularity, gd_offset, gd_size, gt_size,
          used_sectors, gd, gd_iter, gt_iter, ri, gtes, gts, used_blocks>>

(***************************************************************************)
(* Program constants.                                                      *)
(***************************************************************************)
SECTOR_SIZE == 512
\* struct format "I": one directory or table entry is 4 bytes
ENTRY_BYTES == 4
\* self.i.read(4) in parse_magic
MAGIC_BYTES == 4
\* self.i.read(40) in parse_v3_header
V3_HEADER_BYTES == 40
\* self.i.read(75) in parse_v4_header
V4_HEADER_BYTES == 75
\* self.gt_size = 4096 in parse_v3_header
V3_GT_SIZE == 4096
\* range(0, 4) in parse_gd: sectors reserved for one grain table
GT_RESERVED == 4
\* reserve_block(0, 0, 0) and reserve_block(1, 0, 0): the header's sectors
HEADER_SECTORS == 2
\* "self.gts * 4" in check_blocks
EXPECT_PER_GT == 4
\* "+ 2" in check_blocks
EXPECT_HEADER == 2
\* the seven self.d() lines of print_header
HEADER_LINES == 7

\* an attribute that no statement has assigned yet
Unset == 0 - 1
\* None in self.blocks
NoOwner == <<>>

(***************************************************************************)
(* Bounds of the checked images.                                           *)
(***************************************************************************)
MaxGranularity == 2
MaxGdSize == 2

\* file sizes in bytes: 1, 36 and 40 whole sectors (the first with a tail)
FileSizes == {1000, 18432, 20480}
Capacities == {10, 16}
GdOffsets == {1}
UsedSectorValues == {7, 12}
V4GtSizes == {4, 8, 512}
\* values of directory entries: 0 or the sector of a grain table
GdeValues == {0, 2, 6}
\* values of table entries: 0 or the first sector of a grain; slot 0 may
\* point past the end of the file, the other slots to a second grain
GteValues == {0, 10, 14, 39}
GteValuesAt(t) == IF t = 0 THEN {0, 10, 39} ELSE {0, 10, 14}
\* table slots that may be non-zero
LiveSlots == {0, 1}

Min(S) == CHOOSE x \in S : \A y \in S : x <= y
Max(S) == CHOOSE x \in S : \A y \in S : x >= y

RECURSIVE SortedSeq(_)
SortedSeq(S) == IF S = {} THEN <<>>
                ELSE LET m == Min(S) IN <<m>> \o SortedSeq(S \ {m})

Reverse(s) == [i \in 1..Len(s) |-> s[Len(s) + 1 - i]]

(***************************************************************************)
(* The file.  img.words maps the byte offset of every 32-bit word that may *)
(* be non-zero to its value; every other word of the file reads as 0.      *)
(***************************************************************************)
DirWordOffsets(off, n) == {off * SECTOR_SIZE + i * ENTRY_BYTES : i \in 0..(n - 1)}
TableWordOffsets == {s * SECTOR_SIZE + t * ENTRY_BYTES :
                        s \in GdeValues \ {0}, t \in LiveSlots}

U32At(o) == IF o \in DOMAIN img.words THEN img.words[o] ELSE 0

\* struct.unpack("<%dI" % n, self.i.read(n * 4)) after self.i.seek(o):
\* the read is short, and unpack raises struct.error, when the file ends
\* before o + n * 4
ReadFails(o, n) == o + n * ENTRY_BYTES > img.filesize
Unpack(o, n) == [i \in 1..n |-> U32At(o + (i - 1) * ENTRY_BYTES)]
PosAfterRead(o, n) == IF ReadFails(o, n)
                      THEN (IF o > img.filesize THEN o ELSE img.filesize)
                      ELSE o + n * ENTRY_BYTES

(***************************************************************************)
(* The header as the two decoders read it.                                 *)
(***************************************************************************)
\* parse_v4_header: gd_size = int((capacity + l1_sectors - 1) / l1_sectors)
V4GdSize(cap, gtsz, gran) == (cap + gtsz * gran - 1) \div (gtsz * gran)

ImgGdSize(i) == IF i.magic = "COWD" THEN i.gd_size
                ELSE IF i.magic = "KDMV"
                     THEN V4GdSize(i.capacity, i.gt_size, i.granularity)
                     ELSE 0

\* does a table walk started by directory d read the word at byte offset o
WordIsRead(o, d, gtsz) ==
    \E x \in DOMAIN d :
        /\ d[x] # 0
        /\ o >= d[x] * SECTOR_SIZE
        /\ o < d[x] * SECTOR_SIZE + gtsz * ENTRY_BYTES

\* the words of an image with an n-entry directory at sector off: every
\* directory, every content of the table words some walk reads, and zero in
\* the table words nothing reads.  A file too short for the two header
\* sectors is never read past its header: its words are all zero.
WordsFor(off, n, gtsz, fs) ==
    {d @@ t :
        d \in {x \in [DirWordOffsets(off, n) -> GdeValues] :
                 fs \div SECTOR_SIZE < HEADER_SECTORS
                     => \A o \in DOMAIN x : x[o] = 0},
        t \in {y \in [TableWordOffsets -> GteValues] :
                 \A o \in DOMAIN y :
                    y[o] \in GteValuesAt((o % SECTOR_SIZE) \div ENTRY_BYTES)}}

Canonical(w, off, n, gtsz) ==
    LET d == [o \in DirWordOffsets(off, n) |-> w[o]]
    IN  \A o \in TableWordOffsets : w[o] # 0 => WordIsRead(o, d, gtsz)

V3Image(fs, c, g, off, n, u, w) ==
    [magic |-> "COWD", filesize |-> fs, capacity |-> c, granularity |-> g,
     gd_offset |-> off, gd_size |-> n, used_sectors |-> u, gt_size |-> 0,
     words |-> w]

V4Image(fs, c, g, off, z, w) ==
    [magic |-> "KDMV", filesize |-> fs, capacity |-> c, granularity |-> g,
     gd_offset |-> off, gd_size |-> 0, used_sectors |-> 0, gt_size |-> z,
     words |-> w]

BadImage(fs, c, g, off, w) ==
    [magic |-> "XXXX", filesize |-> fs, capacity |-> c, granularity |-> g,
     gd_offset |-> off, gd_size |-> 1, used_sectors |-> 0,
     gt_size |-> Min(V4GtSizes), words |-> w]

\* the images checked; a version 4 directory is as long as the header fields
\* make it, and images whose directory is longer than MaxGdSize are left out
ImageInit(fileSizes, usedValues, capacities) ==
    \E fs \in fileSizes, c \in capacities, g \in 1..MaxGranularity,
       off \in GdOffsets :
        \/ \E n \in 1..MaxGdSize, u \in usedValues :
             \E w \in WordsFor(off, n, V3_GT_SIZE, fs) :
                /\ Canonical(w, off, n, V3_GT_SIZE)
                /\ img = V3Image(fs, c, g, off, n, u, w)
        \/ \E z \in V4GtSizes :
             /\ V4GdSize(c, z, g) <= MaxGdSize
             /\ \E w \in WordsFor(off, V4GdSize(c, z, g), z, fs) :
                   /\ Canonical(w, off, V4GdSize(c, z, g), z)
                   /\ img = V4Image(fs, c, g, off, z, w)
        \/ \E w \in WordsFor(off, 1, 1, fs) :
             /\ Canonical(w, off, 1, 1)
             /\ img = BadImage(fs, c, g, off, w)

\* self.blocks = [None] * int(filesize / SECTOR_SIZE)
InitBlocks(filesize) == [s \in 0..((filesize \div SECTOR_SIZE) - 1) |-> NoOwner]

IdentityOrder(n) == [i \in 1..n |-> i - 1]
Orders(n) == {o \in [1..n -> 0..(n - 1)] :
                 \A i, j \in 1..n : i # j => o[i] # o[j]}

InitParser ==
    /\ pc = "parse_magic"
    /\ exc = "none"
    /\ pos = 0
    /\ lines = 0
    /\ errors = <<>>
    /\ blocks = InitBlocks(img.filesize)
    /\ version = Unset /\ capacity = Unset /\ granularity = Unset
    /\ gd_offset = Unset /\ gd_size = Unset /\ gt_size = Unset
    /\ used_sectors = Unset
    /\ gd = <<>>
    /\ gd_iter = 0 /\ gt_iter = 0 /\ ri = 0
    /\ gtes = Unset /\ gts = Unset /\ used_blocks = Unset

\* the walk of the program: ascending slots, ascending entries
Init ==
    /\ ImageInit(FileSizes, UsedSectorValues, Capacities)
    /\ gd_order = IdentityOrder(ImgGdSize(img))
    /\ gt_desc = FALSE
    /\ InitParser

imgvars == <<img, gd_order, gt_desc>>
hdrvars == <<version, capacity, granularity, gd_offset, gd_size, gt_size,
             used_sectors>>
loopvars == <<gd, gd_iter, gt_iter, ri>>
countvars == <<gtes, gts, used_blocks>>

\* self.e(msg, offset): one more error, one more printed line
Err(kind, offset, args) == [kind |-> kind, offset |-> offset, args |-> args]

\* an exception leaves the parse where it was raised
Raise(e) == pc' = pc /\ exc' = e

\* the parse is at statement l and nothing has been raised
At(l) == pc = l /\ exc = "none"

(***************************************************************************)
(* parse_magic                                                             *)
(***************************************************************************)
\* parse_magic as it would be if an unrecognized signature were taken for a
\* version 4 header instead of raising
ParseMagic_NoRaise ==
    /\ At("parse_magic")
    /\ pos' = pos + MAGIC_BYTES
    /\ lines' = lines + 1
    /\ version' = IF img.magic = "COWD" THEN 3 ELSE 4
    /\ pc' = "parse_header"
    /\ UNCHANGED <<imgvars, exc, errors, blocks, capacity, granularity, gd_offset,
                   gd_size, gt_size, used_sectors, loopvars, countvars>>

ParseMagic ==
    /\ At("parse_magic")
    /\ pos' = pos + MAGIC_BYTES
    /\ lines' = lines + 1
    /\ IF img.magic = "COWD"
       THEN version' = 3 /\ pc' = "parse_header" /\ exc' = exc
       ELSE IF img.magic = "KDMV"
            THEN version' = 4 /\ pc' = "parse_header" /\ exc' = exc
            ELSE version' = version /\ Raise("Exception")
    /\ UNCHANGED <<imgvars, errors, blocks, capacity, granularity, gd_offset,
                   gd_size, gt_size, used_sectors, loopvars, countvars>>

(***************************************************************************)
(* parse_header, parse_v3_header, parse_v4_header                          *)
(***************************************************************************)
parse_v3_header ==
    /\ pos' = pos + V3_HEADER_BYTES
    /\ capacity' = img.capacity
    /\ granularity' = img.granularity
    /\ gd_offset' = img.gd_offset
    /\ gd_size' = img.gd_size
    /\ used_sectors' = img.used_sectors
    /\ gt_size' = V3_GT_SIZE

\* used_sectors is not assigned: the attribute stays absent
parse_v4_header ==
    /\ pos' = pos + V4_HEADER_BYTES
    /\ capacity' = img.capacity
    /\ granularity' = img.granularity
    /\ gd_offset' = img.gd_offset
    /\ gt_size' = img.gt_size
    /\ gd_size' = V4GdSize(img.capacity, img.gt_size, img.granularity)
    /\ used_sectors' = used_sectors

ParseHeader ==
    /\ At("parse_header")
    /\ IF version = 4
       THEN parse_v4_header /\ pc' = "print_header" /\ exc' = exc
       ELSE IF version = 3
            THEN parse_v3_header /\ pc' = "print_header" /\ exc' = exc
            ELSE /\ Raise("Exception")
                 /\ UNCHANGED <<pos, capacity, granularity, gd_offset, gd_size,
                                gt_size, used_sectors>>
    /\ UNCHANGED <<imgvars, lines, errors, blocks, version, loopvars, countvars>>

PrintHeader ==
    /\ At("print_header")
    /\ lines' = lines + HEADER_LINES
    /\ pc' = "parse_gd"
    /\ UNCHANGED <<imgvars, exc, pos, errors, blocks, hdrvars, loopvars,
                   countvars>>

(***************************************************************************)
(* reserve_block(idx, gd, gt): what one call does to the parser.  Indexing *)
(* self.blocks past its end raises IndexError before anything changes.     *)
(***************************************************************************)
\* reserve_block as it would be if a conflict overwrote the recorded owner
reserve_block_overwrite(idx, d, t) ==
    IF idx \notin DOMAIN blocks
    THEN [raised |-> TRUE, blocks |-> blocks, errors |-> errors, lines |-> lines]
    ELSE IF blocks[idx] # NoOwner
         THEN [raised |-> FALSE, blocks |-> [blocks EXCEPT ![idx] = <<d, t>>],
               errors |-> Append(errors,
                   Err("reserved", pos, <<idx, blocks[idx][1], blocks[idx][2]>>)),
               lines |-> lines + 1]
         ELSE [raised |-> FALSE, blocks |-> [blocks EXCEPT ![idx] = <<d, t>>],
               errors |-> errors, lines |-> lines]

\* reserve_block as it would be if the map grew to hold a sector past its end
reserve_block_grow(idx, d, t) ==
    IF idx \notin DOMAIN blocks
    THEN [raised |-> FALSE,
          blocks |-> [s \in 0..idx |-> IF s \in DOMAIN blocks THEN blocks[s]
                                       ELSE IF s = idx THEN <<d, t>> ELSE NoOwner],
          errors |-> errors, lines |-> lines]
    ELSE IF blocks[idx] # NoOwner
         THEN [raised |-> FALSE, blocks |-> blocks,
               errors |-> Append(errors,
                   Err("reserved", pos, <<idx, blocks[idx][1], blocks[idx][2]>>)),
               lines |-> lines + 1]
         ELSE [raised |-> FALSE, blocks |-> [blocks EXCEPT ![idx] = <<d, t>>],
               errors |-> errors, lines |-> lines]

reserve_block(idx, d, t) ==
    IF idx \notin DOMAIN blocks
    THEN [raised |-> TRUE, blocks |-> blocks, errors |-> errors, lines |-> lines]
    ELSE IF blocks[idx] # NoOwner
         THEN [raised |-> FALSE, blocks |-> blocks,
               errors |-> Append(errors,
                   Err("reserved", pos, <<idx, blocks[idx][1], blocks[idx][2]>>)),
               lines |-> lines + 1]
         ELSE [raised |-> FALSE, blocks |-> [blocks EXCEPT ![idx] = <<d, t>>],
               errors |-> errors, lines |-> lines]

\* the owners a message names: "Block %d already reserved by %d,%d"
OwnersNamed(e) == IF e.kind = "reserved" THEN {<<e.args[2], e.args[3]>>} ELSE {}

\* the reserve_block call a state is about to make: <<idx, gd, gt>>
Slot == gd_order[gd_iter + 1]
Gde == gd[Slot + 1]

\* the non-zero slots of the table at sector s, in the order they are walked
LiveSlotSet(s) ==
    {(o - s * SECTOR_SIZE) \div ENTRY_BYTES :
        o \in {x \in DOMAIN img.words :
                 /\ x >= s * SECTOR_SIZE
                 /\ x < s * SECTOR_SIZE + gt_size * ENTRY_BYTES
                 /\ img.words[x] # 0}}
LiveOrder(s) == IF gt_desc THEN Reverse(SortedSeq(LiveSlotSet(s)))
                ELSE SortedSeq(LiveSlotSet(s))
Ctr == LiveOrder(Gde)[gt_iter + 1]
GteOffset == Gde * SECTOR_SIZE + Ctr * ENTRY_BYTES
Gte == U32At(GteOffset)

PendingReserve ==
    IF pc = "parse_gd" THEN <<ri, 0, 0>>
    ELSE IF pc = "gde_reserve" THEN <<Gde + ri, Slot, 0>>
    ELSE <<Gte + ri, Slot, Ctr>>

\* one reserve_block call; `last` tells whether it ends its loop, `next` is
\* where the parse goes on after the loop
DoReserve(last, next) ==
    LET r == reserve_block(PendingReserve[1], PendingReserve[2], PendingReserve[3])
    IN  /\ blocks' = r.blocks
        /\ errors' = r.errors
        /\ lines' = r.lines
        /\ IF r.raised
           THEN Raise("IndexError") /\ ri' = ri
           ELSE /\ exc' = exc
                /\ IF last THEN pc' = next /\ ri' = 0
                   ELSE pc' = pc /\ ri' = ri + 1

(***************************************************************************)
(* parse_gd                                                                *)
(***************************************************************************)
\* self.reserve_block(0, 0, 0); self.reserve_block(1, 0, 0)
ParseGdHeader ==
    /\ At("parse_gd")
    /\ DoReserve(ri = HEADER_SECTORS - 1, "parse_gd_read")
    /\ UNCHANGED <<imgvars, pos, hdrvars, gd, gd_iter, gt_iter, countvars>>

\* gtes = 0, gts = 0, seek to the directory, read and unpack it, ctr = 0
ParseGdRead ==
    /\ At("parse_gd_read")
    /\ gtes' = 0
    /\ gts' = 0
    /\ pos' = PosAfterRead(gd_offset * SECTOR_SIZE, gd_size)
    /\ IF ReadFails(gd_offset * SECTOR_SIZE, gd_size)
       THEN Raise("struct.error") /\ gd' = gd
       ELSE /\ gd' = Unpack(gd_offset * SECTOR_SIZE, gd_size)
            /\ pc' = "gd_loop" /\ exc' = exc
    /\ gd_iter' = 0
    /\ UNCHANGED <<imgvars, lines, errors, blocks, hdrvars, gt_iter, ri,
                   used_blocks>>

\* if gde == 0: ctr += 1; continue
GdSkip ==
    /\ At("gd_loop")
    /\ gd_iter < gd_size
    /\ Gde = 0
    /\ gd_iter' = gd_iter + 1
    /\ UNCHANGED <<imgvars, pc, exc, pos, lines, errors, blocks, hdrvars, gd,
                   gt_iter, ri, countvars>>

\* self.d("GDE ...") for a non-zero entry, then the reservation loop
GdEntry ==
    /\ At("gd_loop")
    /\ gd_iter < gd_size
    /\ Gde # 0
    /\ lines' = lines + 1
    /\ ri' = 0
    /\ pc' = "gde_reserve"
    /\ UNCHANGED <<imgvars, exc, pos, errors, blocks, hdrvars, gd, gd_iter,
                   gt_iter, countvars>>

\* for i in range(0, 4): self.reserve_block(gde + i, ctr, 0)
GdeReserve ==
    /\ At("gde_reserve")
    /\ DoReserve(ri = GT_RESERVED - 1, "parse_gt")
    /\ UNCHANGED <<imgvars, pos, hdrvars, gd, gd_iter, gt_iter, countvars>>

\* the directory is exhausted: parse_gd returns
GdEnd ==
    /\ At("gd_loop")
    /\ gd_iter = gd_size
    /\ pc' = "check_blocks"
    /\ UNCHANGED <<imgvars, exc, pos, lines, errors, blocks, hdrvars, loopvars,
                   countvars>>

(***************************************************************************)
(* parse_gt                                                                *)
(***************************************************************************)
\* seek to the table, read and unpack it, ctr = 0, gts += 1
ParseGt ==
    /\ At("parse_gt")
    /\ pos' = PosAfterRead(Gde * SECTOR_SIZE, gt_size)
    /\ IF ReadFails(Gde * SECTOR_SIZE, gt_size)
       THEN Raise("struct.error") /\ gts' = gts
       ELSE pc' = "gt_loop" /\ exc' = exc /\ gts' = gts + 1
    /\ gt_iter' = 0
    /\ UNCHANGED <<imgvars, lines, errors, blocks, hdrvars, gd, gd_iter, ri,
                   gtes, used_blocks>>

\* a non-zero entry (the zero entries before it only advance ctr):
\* gtes += 1, the GTE line, the bounds check, then the reservation loop
GtEntry ==
    /\ At("gt_loop")
    /\ gt_iter < Len(LiveOrder(Gde))
    /\ gtes' = gtes + 1
    /\ IF Gte > capacity
       THEN /\ errors' = Append(errors, Err("out_of_bounds", GteOffset, <<Gte>>))
            /\ lines' = lines + 2
       ELSE /\ errors' = errors
            /\ lines' = lines + 1
    /\ ri' = 0
    /\ IF granularity > 0
       THEN pc' = "gte_reserve" /\ gt_iter' = gt_iter
       ELSE pc' = pc /\ gt_iter' = gt_iter + 1
    /\ UNCHANGED <<imgvars, exc, pos, blocks, hdrvars, gd, gd_iter, gts,
                   used_blocks>>

\* for i in range(0, self.granularity): self.reserve_block(gte + i, gd, ctr)
GteReserve ==
    /\ At("gte_reserve")
    /\ DoReserve(ri = granularity - 1, "gt_loop")
    /\ gt_iter' = IF pc' = "gt_loop" THEN gt_iter + 1 ELSE gt_iter
    /\ UNCHANGED <<imgvars, pos, hdrvars, gd, gd_iter, countvars>>

\* the table is exhausted: parse_gt returns, parse_gd goes to the next slot
GtEnd ==
    /\ At("gt_loop")
    /\ gt_iter = Len(LiveOrder(Gde))
    /\ gd_iter' = gd_iter + 1
    /\ gt_iter' = 0
    /\ pc' = "gd_loop"
    /\ UNCHANGED <<imgvars, exc, pos, lines, errors, blocks, hdrvars, gd, ri,
                   countvars>>

(***************************************************************************)
(* check_blocks and the summary line of parse                              *)
(***************************************************************************)
UsedBlocks(b) == Cardinality({s \in DOMAIN b : b[s] # NoOwner})
ExpectUsed(n_gtes, n_gts) == n_gtes + n_gts * EXPECT_PER_GT + EXPECT_HEADER

\* reading self.used_sectors raises AttributeError when no header decoder
\* has assigned it
CheckBlocks ==
    /\ At("check_blocks")
    /\ LET used == UsedBlocks(blocks)
           expect == ExpectUsed(gtes, gts)
           e1 == IF used # expect
                 THEN Append(errors, Err("used_mismatch", pos, <<expect, used>>))
                 ELSE errors
           e2 == IF used_sectors # expect
                 THEN Append(e1, Err("header_mismatch", pos, <<expect, used_sectors>>))
                 ELSE e1
       IN  /\ used_blocks' = used
           /\ IF used_sectors = Unset
              THEN errors' = e1 /\ Raise("AttributeError")
              ELSE errors' = e2 /\ pc' = "summary" /\ exc' = exc
           /\ lines' = lines + (Len(errors') - Len(errors))
    /\ UNCHANGED <<imgvars, pos, blocks, hdrvars, loopvars, gtes, gts>>

\* self.d("Parsing complete: ...")
Summary ==
    /\ At("summary")
    /\ lines' = lines + 1
    /\ pc' = "done"
    /\ UNCHANGED <<imgvars, exc, pos, errors, blocks, hdrvars, loopvars,
                   countvars>>

Next ==
    \/ ParseMagic
    \/ ParseHeader
    \/ PrintHeader
    \/ ParseGdHeader
    \/ ParseGdRead
    \/ GdSkip
    \/ GdEntry
    \/ GdeReserve
    \/ GdEnd
    \/ ParseGt
    \/ GtEntry
    \/ GteReserve
    \/ GtEnd
    \/ CheckBlocks
    \/ Summary

Spec == Init /\ [][Next]_vars

(***************************************************************************)
(* The same parser walking the directory slots in any order and the live   *)
(* entries of every table in ascending or descending order.  The order     *)
(* matters only to walks that reach past the header sectors, and the       *)
(* declared used-sector count is not read before the walk has ended: the   *)
(* images are those of the largest file and the largest capacity, with one *)
(* declared count.                                                         *)
(***************************************************************************)
InitAnyOrder ==
    /\ ImageInit({Max(FileSizes)}, {Min(UsedSectorValues)}, {Max(Capacities)})
    /\ gd_order \in Orders(ImgGdSize(img))
    /\ gt_desc \in BOOLEAN
    /\ InitParser

SpecAnyOrder == InitAnyOrder /\ [][Next]_vars

TypeOK ==
    /\ pc \in {"parse_magic", "parse_header", "print_header", "parse_gd",
               "parse_gd_read", "gd_loop", "gde_reserve", "parse_gt", "gt_loop",
               "gte_reserve", "check_blocks", "summary", "done"}
    /\ exc \in {"none", "Exception", "IndexError", "struct.error", "AttributeError"}

(***************************************************************************)
(* What an image asks the walker to reserve, read off the decoded          *)
(* directory and the tables it points to, in no particular order.          *)
(***************************************************************************)
LiveDirSlots == {d \in 0..(Len(gd) - 1) : gd[d + 1] # 0}
EntryAt(s, t) == U32At(s * SECTOR_SIZE + t * ENTRY_BYTES)

HeaderClaim == [kind |-> "hdr", d |-> 0, t |-> 0, lo |-> 0, n |-> HEADER_SECTORS]
GdeClaims == {[kind |-> "gde", d |-> d, t |-> 0, lo |-> gd[d + 1], n |-> GT_RESERVED] :
                 d \in LiveDirSlots}
GteClaimsOf(d) == {[kind |-> "gte", d |-> d, t |-> t, lo |-> EntryAt(gd[d + 1], t),
                    n |-> granularity] : t \in LiveSlotSet(gd[d + 1])}
GteClaims == UNION {GteClaimsOf(d) : d \in LiveDirSlots}
AllClaims == {HeaderClaim} \cup GdeClaims \cup GteClaims

Range(c) == c.lo..(c.lo + c.n - 1)
Covering(s) == {c \in AllClaims : s \in Range(c)}
ClaimedSectors == UNION {Range(c) : c \in AllClaims}

RECURSIVE SumN(_)
SumN(S) == IF S = {} THEN 0
           ELSE LET c == CHOOSE x \in S : TRUE IN c.n + SumN(S \ {c})
\* the number of reserve_block calls of a complete walk
TotalCalls == SumN(AllClaims)

\* the place of a claim in the ascending walk: the header first, then slot
\* by slot the table's own sectors and after them its entries by slot
WalkKey(c) == IF c.kind = "hdr" THEN 0
              ELSE (c.d + 1) * (gt_size + 1) + (IF c.kind = "gte" THEN c.t + 1 ELSE 0)
FirstClaim(s) == CHOOSE c \in Covering(s) : \A c2 \in Covering(s) : WalkKey(c) <= WalkKey(c2)

\* sectors that hold a table of z entries, as a whole number of sectors
GtSectors(z) == (z * ENTRY_BYTES + SECTOR_SIZE - 1) \div SECTOR_SIZE

InRange(c) == /\ Range(c) \subseteq DOMAIN blocks
              /\ c.lo + c.n <= capacity
Disjoint(c1, c2) == Range(c1) \cap Range(c2) = {}

\* an image without corruption: every claimed range in range, no two claims
\* sharing a sector
Uncorrupted ==
    /\ \A c \in AllClaims : InRange(c)
    /\ \A c1, c2 \in AllClaims : c1 # c2 => Disjoint(c1, c2)

WalkDone == pc \in {"check_blocks", "summary", "done"}
CheckDone == pc \in {"summary", "done"} \/ (pc = "check_blocks" /\ exc # "none")

(***************************************************************************)
(* Properties.                                                             *)
(***************************************************************************)
ErrorsOfKind(k) == {i \in 1..Len(errors) : errors[i].kind = k}
Claimed(b) == {s \in DOMAIN b : b[s] # NoOwner}
ReserveStep == exc = "none" /\ pc \in {"parse_gd", "gde_reserve", "gte_reserve"}

\* C1: no step changes or clears the owner of a claimed sector; a
\* reserve_block call on a claimed sector leaves the map as it is and appends
\* exactly one error, and a call on an unclaimed sector records the caller's
\* (gd, gt) as its owner and appends no error.
C1_FirstClaimWins ==
    [][/\ \A s \in DOMAIN blocks :
             blocks[s] # NoOwner => (s \in DOMAIN blocks' /\ blocks'[s] = blocks[s])
       /\ (ReserveStep /\ PendingReserve[1] \in DOMAIN blocks) =>
             IF blocks[PendingReserve[1]] # NoOwner
             THEN /\ blocks' = blocks
                  /\ Len(errors') = Len(errors) + 1
                  /\ SubSeq(errors', 1, Len(errors)) = errors
             ELSE /\ blocks' = [blocks EXCEPT ![PendingReserve[1]] =
                                   <<PendingReserve[2], PendingReserve[3]>>]
                  /\ errors' = errors
      ]_vars

\* a conflict has been recorded and the contested sector still has the owner
\* the message names, which is not the owner the refused call asked for
C1_Witness ==
    \E i \in ErrorsOfKind("reserved") :
        /\ blocks[errors[i].args[1]] = <<errors[i].args[2], errors[i].args[3]>>
        /\ pc = "gte_reserve"
        /\ blocks[errors[i].args[1]] # <<Slot, Ctr>>

\* C2: a non-zero table entry whose grain reaches past capacity (also past
\* the end of the allocation map) never aborts the parse: while its sectors
\* are being reserved no exception is raised.
C2_OutOfRangeNeverAborts ==
    (pc = "gte_reserve" /\ Gte + granularity > capacity) => exc = "none"

\* C3: for an uncorrupted image of any granularity the consistency check
\* finds expected_used equal to the claimed-sector count and reports no
\* mismatch; with one populated slot and one populated entry it ends with
\* 2 + 4 + granularity sectors claimed, one live entry, one table visit and
\* no error (a version 3 header declaring the expected count).
C3_ExpectedMatchesClaimed ==
    (CheckDone /\ Uncorrupted) =>
        /\ used_blocks = ExpectUsed(gtes, gts)
        /\ ErrorsOfKind("used_mismatch") = {}
        /\ (/\ Cardinality(GdeClaims) = 1
            /\ Cardinality(GteClaims) = 1
            /\ (version = 3 => used_sectors = ExpectUsed(1, 1)))
           => /\ used_blocks = HEADER_SECTORS + GT_RESERVED + granularity
              /\ gtes = 1
              /\ gts = 1
              /\ errors = <<>>

\* C4: a version 4 image has no declared used-sector count, never gets a
\* header mismatch error, and its consistency check ends without an
\* exception; a version 3 image gets exactly one header mismatch error when
\* the declared count differs from expected_used and none when it agrees.
C4_DeclaredCheckOnlyV3 ==
    /\ version = 4 =>
          /\ used_sectors = Unset
          /\ ErrorsOfKind("header_mismatch") = {}
          /\ ~(pc = "check_blocks" /\ exc # "none")
    /\ (version = 3 /\ CheckDone) =>
          Cardinality(ErrorsOfKind("header_mismatch")) =
              (IF used_sectors # ExpectUsed(gtes, gts) THEN 1 ELSE 0)

\* C5: an image whose signature is neither COWD nor KDMV fails right after
\* the magic check with the one diagnostic line of that check: the parse
\* never leaves parse_magic, the error list stays empty, no header field is
\* decoded, no sector is reserved, no counter of the walk or of the
\* consistency check is set, and once the exception is raised no step
\* follows.
C5_BadMagicFailsAtOnce ==
    img.magic \notin {"COWD", "KDMV"} =>
        /\ pc = "parse_magic"
        /\ \/ exc = "none" /\ lines = 0
           \/ exc = "Exception" /\ lines = 1 /\ ~ENABLED Next
        /\ errors = <<>>
        /\ version = Unset /\ capacity = Unset /\ granularity = Unset
        /\ gd_offset = Unset /\ gd_size = Unset /\ gt_size = Unset
        /\ used_sectors = Unset
        /\ Claimed(blocks) = {}
        /\ gd = <<>>
        /\ gtes = Unset /\ gts = Unset /\ used_blocks = Unset

\* the magic check of an unrecognized signature has run and raised
C5_Witness ==
    /\ img.magic \notin {"COWD", "KDMV"}
    /\ exc = "Exception"
    /\ lines = 1
    /\ Cardinality(DOMAIN blocks) >= HEADER_SECTORS

\* the image of the double-claim scenario, once its consistency check has
\* ended: two directory slots with different tables, one live entry in each,
\* both entries with the same grain, every range in range, nothing else shared
C6_Scenario ==
    /\ CheckDone
    /\ Cardinality(GdeClaims) = 2
    /\ Cardinality(GteClaims) = 2
    /\ \A c \in AllClaims : InRange(c)
    /\ \A c1, c2 \in AllClaims :
          c1 # c2 => \/ Disjoint(c1, c2)
                     \/ (c1.kind = "gte" /\ c2.kind = "gte" /\ c1.d # c2.d
                                         /\ c1.lo = c2.lo)
    /\ \E c1, c2 \in GteClaims : c1.d # c2.d /\ c1.lo = c2.lo
    /\ \A c1, c2 \in GdeClaims : c1 # c2 => c1.lo # c2.lo

\* C6: two distinct directory slots point to two distinct, otherwise valid
\* tables that each hold one entry with the same in-bounds grain: for every
\* granularity the walk records exactly one conflict error, the error names
\* both the existing and the new owner, and the claimed-sector count is
\* smaller than expected_used.
C6_OneConflictNamingBoth ==
    C6_Scenario =>
        /\ Cardinality(ErrorsOfKind("reserved")) = 1
        /\ \A i \in ErrorsOfKind("reserved") :
              OwnersNamed(errors[i]) = {<<c.d, c.t>> : c \in GteClaims}
        /\ used_blocks < ExpectUsed(gtes, gts)

\* C7: a visited non-zero table entry has a bounds error at its byte offset
\* exactly when its value lies outside [0, capacity).
C7_BoundsErrorIffOutside ==
    pc = "gte_reserve" =>
        ((\E i \in ErrorsOfKind("out_of_bounds") : errors[i].offset = GteOffset)
            <=> ~(0 <= Gte /\ Gte < capacity))

C9_ReservesTableSectors ==
    /\ (pc = "gde_reserve" /\ exc = "none") => ri < GtSectors(gt_size)
    /\ (pc = "parse_gt" /\ exc = "none") =>
          \A s \in Gde..(Gde + GtSectors(gt_size) - 1) :
              s \in DOMAIN blocks /\ blocks[s] # NoOwner

\* C10: whatever the order in which the directory slots and the entries of
\* a table are walked, a walk that ends without a failed reservation leaves
\* the same set of claimed sectors (every sector some claim covers), the
\* same live-entry and table-visit counts and the same number of conflict
\* errors (one per reserve_block call that did not claim its sector); in the
\* ascending order of the program the owner of a claimed sector is its
\* first claimant in that order.
C10_OrderIndependent ==
    WalkDone =>
        /\ Claimed(blocks) = ClaimedSectors
        /\ gtes = Cardinality(GteClaims)
        /\ gts = Cardinality(GdeClaims)
        /\ Cardinality(ErrorsOfKind("reserved")) = TotalCalls - Cardinality(ClaimedSectors)
        /\ (gd_order = IdentityOrder(Len(gd_order)) /\ ~gt_desc) =>
              \A s \in Claimed(blocks) :
                  blocks[s] = <<FirstClaim(s).d, FirstClaim(s).t>>

\* a walk in another order than the program's has ended with a contested
\* sector whose recorded owner is not its first claimant in ascending order
C10_Witness ==
    /\ WalkDone
    /\ gd_order # IdentityOrder(Len(gd_order))
    /\ ErrorsOfKind("reserved") # {}
    /\ \E s \in Claimed(blocks) :
          blocks[s] # <<FirstClaim(s).d, FirstClaim(s).t>>

====
